---- MODULE Spec2Model ----
(***************************************************************************)
(* FAOSTAT extractors: extract_prices.py (the price export, "prices") and  *)
(* adhoc_load_fao_as_requested_QCL.py (the production export,              *)
(* "production").  The model covers the HTTP wrapper, the record           *)
(* normalizer, label resolution, the query parameter builder, the two      *)
(* export drivers and their __main__ blocks.                               *)
(***************************************************************************)
EXTENDS Integers, Sequences, FiniteSets, TLC

VARIABLES
    variant,        \* which script runs: "prices" | "production"
    entry,          \* "call": the export function is called; "main": __main__
    domain_code,    \* argument domain_code
    labels,         \* argument grains / crops (the wanted labels)
    years,          \* argument years
    template,       \* argument output_csv / save_as_csv
    pc,             \* position of the run
    requests,       \* HTTP requests issued so far, in order
    catalog,        \* the "data" array of the codelist response
    all_items,      \* the codelist table
    codes,          \* the codes of the selection
    err,            \* the exception in flight / raised to the caller
    logs,           \* what was printed, in order
    file,           \* the output file: "none" | "partial" | "complete"
    exit_code,      \* process exit status of a __main__ run (-1: running)
    steps,          \* the steps executed so far, each with its outcome
    self_data,      \* Records: the list's content
    expected_order, \* Records._expected_order
    table,          \* the last table a normalizer produced
    norm,           \* which normalizer produced it
    args,           \* the (data, columns) the Records was constructed with
    get_variant,    \* Request.get: the script whose wrapper is called
    get_url,        \* Request.get: the URL
    get_response,   \* Request.get: the response requests.get produced
    get_result      \* Request.get: Pending, or what the call raised

runVars == <<variant, entry, domain_code, labels, years, template, pc, requests,
             catalog, all_items, codes, err, logs, file,
             exit_code, steps>>
dfVars == <<self_data, expected_order, table, norm, args>>
getVars == <<get_variant, get_url, get_response, get_result>>
vars == <<runVars, dfVars, getVars>>

----------------------------------------------------------------------------
(* Bounds of the model *)

\* longest years argument
MaxYears == 2
\* most entries in a codelist response
MaxEntries == 2
\* most records handed to a normalizer
MaxRecs == 2
\* most keys in one record handed to a normalizer
MaxKeys == 2
\* longest preferred-column list
MaxPref == 2

----------------------------------------------------------------------------
(* Sequences *)

InSeq(x, s) == \E i \in 1..Len(s) : s[i] = x

Range(s) == {s[i] : i \in 1..Len(s)}

NoDup(s) == \A i, j \in 1..Len(s) : s[i] = s[j] => i = j

SeqsUpTo(S, n) == UNION {[1..m -> S] : m \in 0..n}

\* null of a table cell (NaN / None)
Null == "<NaN>"

----------------------------------------------------------------------------
(* Record normalizer.  A record (a dict) is the sequence of its <<key,     *)
(* value>> pairs in insertion order; a table is its column list and, per   *)
(* input record, the row of cells aligned with the columns.                *)

HasKey(rec, k) == \E i \in 1..Len(rec) : rec[i][1] = k

Get(rec, k) ==
    IF HasKey(rec, k)
    THEN rec[CHOOSE i \in 1..Len(rec) : rec[i][1] = k][2]
    ELSE Null

RECURSIVE AppendKeys(_, _)
\* for k in rec: if k not in cols: cols.append(k)
AppendKeys(cols, rec) ==
    IF rec = <<>> THEN cols
    ELSE AppendKeys(IF InSeq(Head(rec)[1], cols) THEN cols
                    ELSE Append(cols, Head(rec)[1]),
                    Tail(rec))

RECURSIVE CollectCols(_, _)
\* for rec in self: ...
CollectCols(cols, data) ==
    IF data = <<>> THEN cols
    ELSE CollectCols(AppendKeys(cols, Head(data)), Tail(data))

\* a bug: only the first record's keys are collected
DfColsFirstOnly(order, data) ==
    IF data = <<>> THEN order ELSE AppendKeys(order, Head(data))

\* cols = list(self._expected_order); the two loops
DfCols(order, data) == CollectCols(order, data)

\* pd.DataFrame.from_records(self, columns=cols)
from_records(data, cols) ==
    [columns |-> cols,
     rows |-> [i \in 1..Len(data) |->
                 [j \in 1..Len(cols) |-> Get(data[i], cols[j])]]]

\* Records.df
Records_df(order, data) == from_records(data, DfCols(order, data))

\* a bug: cols = self._expected_order (no copy), so the appends reach the list
ExpectedOrderAliased(order, data) == DfCols(order, data)

\* Records._expected_order after df: cols is a copy, the list is untouched
ExpectedOrderAfterDf(order, data) == order

\* pd.DataFrame(data) of the production script: the union of the keys
pd_DataFrame(data) == from_records(data, CollectCols(<<>>, data))

NoTable == [columns |-> <<>>, rows |-> <<>>]

----------------------------------------------------------------------------
(* Inputs of the normalizer specification *)

Keys == {"a", "b", "c"}

\* the key orders of a dict: no key twice
KeySeqs == {ks \in SeqsUpTo(Keys, MaxKeys) : NoDup(ks)}

\* records with the given key orders; the value under key k of record n is
\* the string k followed by n, so that no two cells hold the same value
MkData(kss) ==
    [n \in 1..Len(kss) |->
        [j \in 1..Len(kss[n]) |-> <<kss[n][j], kss[n][j] \o ToString(n)>>]]

DfInit ==
    /\ self_data \in {MkData(kss) : kss \in SeqsUpTo(KeySeqs, MaxRecs)}
    /\ expected_order \in SeqsUpTo(Keys, MaxPref)
    /\ table = NoTable
    /\ norm = "none"
    /\ args = [data |-> self_data, columns |-> expected_order]

\* Records(data, columns).df
Df ==
    /\ norm = "none"
    /\ table' = Records_df(expected_order, self_data)
    /\ expected_order' = ExpectedOrderAfterDf(expected_order, self_data)
    /\ norm' = "Records.df"
    /\ UNCHANGED <<self_data, args, runVars, getVars>>

\* pd.DataFrame(data)
DataFrame ==
    /\ norm = "none"
    /\ expected_order = <<>>
    /\ table' = pd_DataFrame(self_data)
    /\ norm' = "pd.DataFrame"
    /\ UNCHANGED <<self_data, expected_order, args, runVars, getVars>>

DfIdle ==
    /\ self_data = <<>> /\ expected_order = <<>> /\ table = NoTable
    /\ norm = "idle" /\ args = [data |-> <<>>, columns |-> <<>>]

----------------------------------------------------------------------------
(* HTTP wrapper.  A URL is the sequence of its pieces, "/" and "?" being   *)
(* pieces of their own, so that str.split is computed, not assumed.        *)

baseurl == <<"https:", "/", "/", "faostatservices.fao.org", "/", "api", "/", "v1">>
lang == "en"

\* f"{self.baseurl}/{self.lang}/codes/{code_id}/{domain_code}"
CodelistUrl(code_id, domain) ==
    baseurl \o <<"/", lang, "/", "codes", "/", code_id, "/", domain>>

\* f"{self.baseurl}/{self.lang}/data/{domain_code}"
DataUrl(domain) == baseurl \o <<"/", lang, "/", "data", "/", domain>>

\* s.split(sep)[-1]
SplitLast(s, sep) ==
    IF InSeq(sep, s)
    THEN LET last == CHOOSE i \in 1..Len(s) :
                        s[i] = sep /\ \A j \in (i+1)..Len(s) : s[j] # sep
         IN  SubSeq(s, last + 1, Len(s))
    ELSE s

\* s.split(sep)[0]
SplitFirst(s, sep) ==
    IF InSeq(sep, s)
    THEN LET first == CHOOSE i \in 1..Len(s) :
                         s[i] = sep /\ \A j \in 1..(i-1) : s[j] # sep
         IN  SubSeq(s, 1, first - 1)
    ELSE s

\* context["url"].split("/")[-1].split("?")[0]
Resource(url) == SplitFirst(SplitLast(url, "/"), "?")

Sentinel == "Index: 0, Size: 0"
JsonData == "{\"data\": [...]}"
JsonNoData == "{}"
Html == "<html>gateway</html>"
NearSentinel == "Index: 0, Size: 0\n"

Statuses == {200, 304, 404, 500, 524}
Bodies == {Sentinel, NearSentinel, JsonData, JsonNoData, Html}
Responses == [status : Statuses, body : Bodies]
NoResponse == [status |-> 0, body |-> ""]

\* An exception: its class, what its message says (msg), whether the message
\* names the domain code, the resource it names, the HTTP status it carries,
\* and the class of the exception it was raised while handling (__context__).
Exc(cls, msg) ==
    [cls |-> cls, msg |-> msg, domain |-> FALSE, resource |-> <<>>,
     status |-> 0, context |-> "none"]
NoErr == Exc("none", "")
Pending == Exc("pending", "")

\* requests.Response.raise_for_status: HTTPError for 4xx and 5xx
raise_for_status(resp) ==
    IF 400 <= resp.status /\ resp.status < 600
    THEN [Exc("HTTPError", "status") EXCEPT !.status = resp.status]
    ELSE NoErr

\* extract_prices.Request._raise_for_status
Request_raise_for_status(url, resp) ==
    IF resp.status = 500 /\ resp.body = Sentinel
    THEN [Exc("Exception", "nao encontrado") EXCEPT !.resource = Resource(url)]
    ELSE IF resp.status = 524
    THEN Exc("TimeoutError", "tempo excedido")
    ELSE raise_for_status(resp)

\* adhoc_load_fao_as_requested_QCL.Request.get: resp.raise_for_status()
QCL_raise_for_status(url, resp) == raise_for_status(resp)

\* Request.get of the running script
WrapperRaises(v, url, resp) ==
    IF v = "prices" THEN Request_raise_for_status(url, resp)
    ELSE QCL_raise_for_status(url, resp)

\* response.json() fails on a body that is not JSON
IsJson(body) == body \in {JsonData, JsonNoData}

\* extract_prices.Request.get_data: response.json().get("data", [])
Request_get_data(body, payload) ==
    IF ~IsJson(body) THEN [exc |-> Exc("JSONDecodeError", "json"), data |-> <<>>]
    ELSE IF body = JsonNoData THEN [exc |-> NoErr, data |-> <<>>]
    ELSE [exc |-> NoErr, data |-> payload]

\* adhoc_load_fao_as_requested_QCL.Request.get_data: response.json()["data"]
QCL_get_data(body, payload) ==
    IF ~IsJson(body) THEN [exc |-> Exc("JSONDecodeError", "json"), data |-> <<>>]
    ELSE IF body = JsonNoData THEN [exc |-> Exc("KeyError", "data"), data |-> <<>>]
    ELSE [exc |-> NoErr, data |-> payload]

\* fetch_data after the response arrived: the wrapper's check, then the data
FetchData(v, url, resp, payload) ==
    LET e == WrapperRaises(v, url, resp)
    IN  IF e # NoErr THEN [exc |-> e, data |-> <<>>]
        ELSE IF v = "prices" THEN Request_get_data(resp.body, payload)
        ELSE QCL_get_data(resp.body, payload)

\* requests.get itself failed: no response (connection error, timeout)
ConnectionError == Exc("ConnectionError", "no response")

----------------------------------------------------------------------------
(* The wrapper on its own: Request.get on any URL of the API and any       *)
(* response.                                                               *)

DomainCodes == {"PP", "QCL", "XX"}

GetInit ==
    /\ get_variant \in {"prices", "production"}
    /\ get_url \in {CodelistUrl("items", d) : d \in DomainCodes}
                   \cup {DataUrl(d) : d \in DomainCodes}
    /\ get_response \in Responses
    /\ get_result = Pending

GetIdle ==
    /\ get_variant = "none" /\ get_url = <<>>
    /\ get_response = NoResponse /\ get_result = Exc("idle", "")

\* Request.get: the response is checked, then returned
Request_get ==
    /\ get_result = Pending
    /\ get_result' = WrapperRaises(get_variant, get_url, get_response)
    /\ UNCHANGED <<get_variant, get_url, get_response, runVars, dfVars>>

----------------------------------------------------------------------------
(* Query parameters.  A value is tagged with its Python type: a str, an    *)
(* int, a bool or a list of ints.                                          *)

VStr(x) == [t |-> "str", s |-> x, i |-> 0, b |-> FALSE, l |-> <<>>]
VInt(x) == [t |-> "int", s |-> "", i |-> x, b |-> FALSE, l |-> <<>>]
VBool(x) == [t |-> "bool", s |-> "", i |-> 0, b |-> x, l |-> <<>>]
VList(x) == [t |-> "list", s |-> "", i |-> 0, b |-> FALSE, l |-> x]

\* str(v) of a scalar
PyStr(v) ==
    CASE v.t = "str" -> v.s
      [] v.t = "int" -> ToString(v.i)
      [] v.t = "bool" -> IF v.b THEN "True" ELSE "False"
      [] OTHER -> "[...]"

\* str.lower on the strings str(bool) gives
Lower(x) == IF x = "True" THEN "true" ELSE IF x = "False" THEN "false" ELSE x

RECURSIVE Join(_)
\* ",".join(map(str, v))
Join(l) ==
    IF l = <<>> THEN ""
    ELSE IF Len(l) = 1 THEN ToString(l[1])
    ELSE ToString(l[1]) \o "," \o Join(Tail(l))

\* the six display parameters of extract_prices.FAOSTAT.get_data
DisplayParams(show_codes, show_flags, show_notes, null_values, limit, output_type) ==
    << <<"show_codes", VStr(Lower(PyStr(VBool(show_codes))))>>,
       <<"show_flags", VStr(Lower(PyStr(VBool(show_flags))))>>,
       <<"show_notes", VStr(Lower(PyStr(VBool(show_notes))))>>,
       <<"null_values", VStr(Lower(PyStr(VBool(null_values))))>>,
       <<"limit", VStr(PyStr(VInt(limit)))>>,
       <<"output_type", VStr(output_type)>> >>

\* extract_prices.FAOSTAT.get_data: the parameter list
Params(filters, show_codes, show_flags, show_notes, null_values, limit, output_type) ==
    [n \in 1..Len(filters) |->
        IF filters[n][2].t = "list"
        THEN <<filters[n][1], VStr(Join(filters[n][2].l))>>
        ELSE filters[n]]
    \o DisplayParams(show_codes, show_flags, show_notes, null_values, limit, output_type)

\* adhoc_load_fao_as_requested_QCL.FAOSTAT.get_data: the parameter list
QCL_Params(filters, show_codes, show_flags, show_notes, null_values, limit, output_type) ==
    filters \o
    << <<"show_codes", VBool(show_codes)>>,
       <<"show_flags", VBool(show_flags)>>,
       <<"show_notes", VBool(show_notes)>>,
       <<"null_values", VBool(null_values)>>,
       <<"limit", VInt(limit)>>,
       <<"output_type", VStr(output_type)>> >>

RECURSIVE Encode(_)
\* requests.get(url, params=params): a list value gives one pair per element,
\* every value is sent as its str
Encode(params) ==
    IF params = <<>> THEN <<>>
    ELSE LET k == Head(params)[1]
             v == Head(params)[2]
         IN  (IF v.t = "list"
              THEN [n \in 1..Len(v.l) |-> <<k, ToString(v.l[n])>>]
              ELSE << <<k, PyStr(v)>> >>)
             \o Encode(Tail(params))

----------------------------------------------------------------------------
(* Label resolution *)

CodeStrs == <<"882", "886", "887">>
\* Series.astype(int) on the codes the service sends
AsInt(c) == CASE c = "882" -> 882 [] c = "886" -> 886 [] c = "887" -> 887 [] OTHER -> 0

Wanted == {"Raw milk of cattle", "Raw milk of goats"}
CatalogLabels == {"Raw milk of cattle", "Wheat"}

\* codelist entries: a code, and a label or a description
EntriesOf(c) ==
    {<< <<"code", c>>, <<k, l>> >> : k \in {"label", "description"}, l \in CatalogLabels}

\* codelists: codes are unique (the n-th entry carries the n-th code)
Catalogs ==
    UNION {{cat \in [1..m -> UNION {EntriesOf(CodeStrs[n]) : n \in 1..m}] :
              \A n \in 1..m : cat[n] \in EntriesOf(CodeStrs[n])} :
           m \in 0..(IF MaxEntries < Len(CodeStrs) THEN MaxEntries ELSE Len(CodeStrs))}

\* table[col] of row n (the first column of that name)
Cell(t, n, col) ==
    t.rows[n][CHOOSE j \in 1..Len(t.columns) : t.columns[j] = col]

RECURSIVE Matching(_, _, _, _)
\* table[table[col].isin(wanted)]: the matching rows' numbers, from n on
Matching(t, col, wanted, n) ==
    IF n > Len(t.rows) THEN <<>>
    ELSE (IF Cell(t, n, col) \in wanted THEN <<n>> ELSE <<>>)
         \o Matching(t, col, wanted, n + 1)

\* selection['code']
CodesOf(t, sel) == [n \in 1..Len(sel) |-> Cell(t, sel[n], "code")]

\* extract_prices.load_price_data_of_grains, step 2
Select(t, wanted) ==
    LET label_column == IF InSeq("label", t.columns) THEN "label" ELSE "description"
    IN  IF ~InSeq(label_column, t.columns)
        THEN [exc |-> Exc("KeyError", label_column), codes |-> <<>>]
        ELSE IF Matching(t, label_column, wanted, 1) = <<>>
        THEN [exc |-> Exc("ValueError", "No items found"), codes |-> <<>>]
        ELSE IF ~InSeq("code", t.columns)
        THEN [exc |-> Exc("KeyError", "code"), codes |-> <<>>]
        ELSE [exc |-> NoErr, codes |-> CodesOf(t, Matching(t, label_column, wanted, 1))]

\* adhoc_load_fao_as_requested_QCL: all_items[all_items['label'].isin(crops)]
QCL_Select(t, wanted) ==
    IF ~InSeq("label", t.columns)
    THEN [exc |-> Exc("KeyError", "label"), codes |-> <<>>]
    ELSE IF ~InSeq("code", t.columns)
    THEN [exc |-> Exc("KeyError", "code"), codes |-> <<>>]
    ELSE [exc |-> NoErr, codes |-> CodesOf(t, Matching(t, "label", wanted, 1))]

\* list(selection['code'].astype(int))
AsInts(cs) == [n \in 1..Len(cs) |-> AsInt(cs[n])]

----------------------------------------------------------------------------
(* The export drivers: load_price_data_of_grains ("prices") and            *)
(* load_production_data_of_crops_and_livestock_products ("production").    *)

Variants == {"prices", "production"}

DefaultDomain(v) == IF v = "prices" THEN "PP" ELSE "QCL"
DefaultLabels == {"Raw milk of cattle", "Raw milk of goats"}
DefaultYears == <<2022, 2023>>
YearVals == {2022, 2023}

PricesCsv == "faostat_prices_{n_grains}grains_{n_years}years_{ts}.csv"
QCLCsv == "faostat_data_{dataset}_{describe}_at_{timestamp}.csv"
PlainCsv == "out.csv"
DefaultTemplate(v) == IF v = "prices" THEN PricesCsv ELSE QCLCsv

\* the replacement fields of a template
Fields(tpl) ==
    CASE tpl = PricesCsv -> {"n_grains", "n_years", "ts"}
      [] tpl = QCLCsv -> {"dataset", "describe", "timestamp"}
      [] OTHER -> {}

\* str.format with the keyword arguments the script passes
FormatRaises(v, tpl) ==
    LET given == IF v = "prices" THEN {"n_grains", "n_years", "ts"}
                 ELSE {"dataset", "describe", "timestamp"}
    IN  IF Fields(tpl) \subseteq given THEN NoErr
        ELSE Exc("KeyError", CHOOSE f \in Fields(tpl) : f \notin given)

\* a bug: a failed step is swallowed and the run goes on
AfterFailureGoOn(v, step) ==
    CASE step = "codelist" -> "resolve"
      [] step = "resolve" -> IF v = "prices" THEN "probe" ELSE "full"
      [] step = "probe" -> "full"
      [] step = "data" -> "format"
      [] step = "format" -> "write"
      [] OTHER -> "returned"

\* where an exception raised in a step goes: to the except clause of
\* load_price_data_of_grains, or out of the production function
AfterFailure(v, step) == IF v = "prices" THEN "except" ELSE "raised"

\* a bug: the probe is sent after the full request
StepAfterProbeLast(v, step, tpl) ==
    CASE step = "codelist" -> "resolve"
      [] step = "resolve" -> "full"
      [] step = "data" -> IF v = "prices" THEN "probe"
                          ELSE IF tpl = "" THEN "returned" ELSE "format"
      [] step = "probe" -> "format"
      [] step = "format" -> "write"
      [] OTHER -> "returned"

\* where a step that succeeded leads
StepAfter(v, step, tpl) ==
    CASE step = "codelist" -> "resolve"
      [] step = "resolve" -> IF v = "prices" THEN "probe" ELSE "full"
      [] step = "probe" -> "full"
      [] step = "data" -> IF v = "prices" THEN "format"
                          ELSE IF tpl = "" THEN "returned" ELSE "format"
      [] step = "format" -> "write"
      [] OTHER -> "returned"

Done(step) == Append(steps, [step |-> step, ok |-> TRUE])

\* the step raises e
Raise(e, step, printed) ==
    /\ err' = e
    /\ steps' = Append(steps, [step |-> step, ok |-> FALSE])
    /\ logs' = logs \o printed
    /\ pc' = AfterFailure(variant, step)

\* what fetch_data can give once the request is out
Fetched(v, url, payloads) ==
    {FetchData(v, url, resp, payload) :
        resp \in Responses, payload \in payloads}
    \cup {[exc |-> ConnectionError, data |-> <<>>]}

RunInit ==
    /\ variant \in Variants
    /\ entry \in {"call", "main"}
    /\ IF entry = "main"
       THEN /\ domain_code = DefaultDomain(variant)
            /\ labels = DefaultLabels
            /\ years = DefaultYears
            /\ template = DefaultTemplate(variant)
       ELSE /\ domain_code \in {DefaultDomain(variant), "XX"}
            /\ labels \in SUBSET Wanted
            /\ years \in SeqsUpTo(YearVals, MaxYears)
            /\ template \in {PricesCsv, QCLCsv, PlainCsv}
                            \cup (IF variant = "production" THEN {""} ELSE {})
    /\ pc = "start"
    /\ requests = <<>>
    /\ catalog = <<>>
    /\ all_items = NoTable
    /\ codes = <<>>
    /\ err = NoErr
    /\ logs = <<>>
    /\ file = "none"
    /\ exit_code = -1
    /\ steps = <<>>

RunIdle ==
    /\ variant = "none" /\ entry = "none" /\ domain_code = "" /\ labels = {}
    /\ years = <<>> /\ template = "" /\ pc = "idle" /\ requests = <<>>
    /\ catalog = <<>> /\ all_items = NoTable /\ codes = <<>> /\ err = NoErr
    /\ logs = <<>> /\ file = "none" /\ exit_code = -1 /\ steps = <<>>

inputs == <<variant, entry, domain_code, labels, years, template>>

\* FAOSTAT.get_codelist: the GET is sent
IssueCodelist ==
    /\ pc = "start"
    /\ requests' = Append(requests,
            [kind |-> "codes", url |-> CodelistUrl("items", domain_code), query |-> <<>>])
    /\ pc' = "codelist_wait"
    /\ UNCHANGED <<dfVars, getVars, inputs, catalog, all_items, codes, err, logs, file, exit_code, steps>>

\* FAOSTAT.get_codelist: the response arrives, the table is built
CodelistReturns ==
    /\ pc = "codelist_wait"
    /\ \E r \in Fetched(variant, CodelistUrl("items", domain_code), Catalogs) :
          IF r.exc # NoErr
          THEN /\ Raise(r.exc, "codelist", <<>>)
               /\ UNCHANGED <<catalog, all_items>>
          ELSE /\ catalog' = r.data
               /\ all_items' = IF variant = "prices" THEN Records_df(<<>>, r.data)
                               ELSE pd_DataFrame(r.data)
               /\ steps' = Done("codelist")
               /\ logs' = IF variant = "prices"
                          THEN Append(logs, "Available columns in all_items") ELSE logs
               /\ pc' = StepAfter(variant, "codelist", template)
               /\ UNCHANGED err
    /\ UNCHANGED <<dfVars, getVars, inputs, requests, codes, file, exit_code>>

\* step 2: the entries whose label is wanted
ResolveLabels ==
    /\ pc = "resolve"
    /\ LET r == IF variant = "prices" THEN Select(all_items, labels)
                ELSE QCL_Select(all_items, labels)
       IN  IF r.exc # NoErr
           THEN /\ Raise(r.exc, "resolve", <<>>)
                /\ UNCHANGED codes
           ELSE /\ codes' = r.codes
                /\ steps' = Done("resolve")
                /\ logs' = IF variant = "prices" THEN Append(logs, "Selected items") ELSE logs
                /\ pc' = StepAfter(variant, "resolve", template)
                /\ UNCHANGED err
    /\ UNCHANGED <<dfVars, getVars, inputs, requests, catalog, all_items, file, exit_code>>

\* get_data's except clause: the message naming the domain is printed and
\* the exception is raised again, unchanged
DomainMessage == "Erro ao acessar o dominio {domain_code}"

\* line 184: raise Exception(f"Falha ao acessar dados do dominio {domain_code} ...
\* Erro: {str(test_error)}") while test_error is handled
ProbeFailure(e) ==
    [Exc("Exception", "Falha ao acessar dados do dominio") EXCEPT
        !.domain = TRUE, !.context = e.cls, !.status = e.status,
        !.resource = e.resource]

\* step 3, first half: the single-item, single-year, limit=1 request is sent
IssueProbe ==
    /\ pc = "probe"
    /\ IF years = <<>>
       THEN /\ Raise(Exc("IndexError", "years[0]"), "probe", <<"Verificando disponibilidade">>)
            /\ UNCHANGED requests
       ELSE /\ requests' = Append(requests,
                  [kind |-> "probe", url |-> DataUrl(domain_code),
                   query |-> Encode(Params(
                       << <<"item", VStr(codes[1])>>, <<"year", VInt(years[1])>> >>,
                       TRUE, TRUE, FALSE, FALSE, 1, "objects"))])
            /\ logs' = Append(logs, "Verificando disponibilidade")
            /\ pc' = "probe_wait"
            /\ UNCHANGED <<err, steps>>
    /\ UNCHANGED <<dfVars, getVars, inputs, catalog, all_items, codes, file, exit_code>>

\* step 3, first half: the probe's response arrives
ProbeReturns ==
    /\ pc = "probe_wait"
    /\ \E r \in Fetched(variant, DataUrl(domain_code), {<<>>}) :
          IF r.exc # NoErr
          THEN Raise(ProbeFailure(r.exc), "probe", <<DomainMessage>>)
          ELSE /\ steps' = Done("probe")
               /\ logs' = Append(logs, "Teste bem-sucedido")
               /\ pc' = StepAfter(variant, "probe", template)
               /\ UNCHANGED err
    /\ UNCHANGED <<dfVars, getVars, inputs, requests, catalog, all_items, codes, file, exit_code>>

\* the full request is sent: every selected item, every year
IssueFull ==
    /\ pc = "full"
    /\ LET filters == << <<"item", VList(AsInts(codes))>>, <<"year", VList(years)>> >>
       IN  requests' = Append(requests,
              [kind |-> "data", url |-> DataUrl(domain_code),
               query |-> IF variant = "prices"
                         THEN Encode(Params(filters, TRUE, TRUE, FALSE, FALSE, -1, "objects"))
                         ELSE Encode(QCL_Params(filters, TRUE, TRUE, TRUE, TRUE, -1, "objects"))])
    /\ pc' = "full_wait"
    /\ UNCHANGED <<dfVars, getVars, inputs, catalog, all_items, codes, err, logs, file, exit_code, steps>>

\* the full request's response arrives
FullReturns ==
    /\ pc = "full_wait"
    /\ \E r \in Fetched(variant, DataUrl(domain_code), {<<>>}) :
          IF r.exc # NoErr
          THEN Raise(r.exc, "data",
                     IF variant = "prices" THEN <<DomainMessage>> ELSE <<>>)
          ELSE /\ steps' = Done("data")
               /\ pc' = StepAfter(variant, "data", template)
               /\ UNCHANGED <<err, logs>>
    /\ UNCHANGED <<dfVars, getVars, inputs, requests, catalog, all_items, codes, file, exit_code>>

\* step 4, first half: the file name
FormatFilename ==
    /\ pc = "format"
    /\ IF FormatRaises(variant, template) # NoErr
       THEN Raise(FormatRaises(variant, template), "format", <<>>)
       ELSE /\ steps' = Done("format")
            /\ pc' = StepAfter(variant, "format", template)
            /\ UNCHANGED <<err, logs>>
    /\ UNCHANGED <<dfVars, getVars, inputs, requests, catalog, all_items, codes, file, exit_code>>

\* step 4, second half: DataFrame.to_csv, which writes the whole file or
\* fails on the way (the file missing or cut short)
WriteCsv ==
    /\ pc = "write"
    /\ \/ /\ file' = "complete"
          /\ steps' = Done("write")
          /\ logs' = Append(logs, "saved")
          /\ pc' = StepAfter(variant, "write", template)
          /\ UNCHANGED err
       \/ /\ file' \in {"none", "partial"}
          /\ Raise(Exc("OSError", "to_csv"), "write", <<>>)
    /\ UNCHANGED <<dfVars, getVars, inputs, requests, catalog, all_items, codes, exit_code>>

\* load_price_data_of_grains, except Exception: print, raise
OuterExcept ==
    /\ pc = "except"
    /\ logs' = Append(logs, "[ERROR] Falha ao carregar dados de preco")
    /\ pc' = "raised"
    /\ UNCHANGED <<dfVars, getVars, inputs, requests, catalog, all_items, codes, err, file, exit_code, steps>>

\* the exit status of a __main__ run whose export raised: extract_prices
\* catches the exception and falls off the end of the script; the production
\* script lets it reach the interpreter
MainExitStatus(v) == IF v = "prices" THEN 0 ELSE 1

\* __main__ after the export raised
MainFailed ==
    /\ pc = "raised" /\ entry = "main"
    /\ logs' = logs \o (IF variant = "prices"
                        THEN <<"Erro durante a execucao", "Sugestoes">>
                        ELSE <<"Traceback">>)
    /\ exit_code' = MainExitStatus(variant)
    /\ pc' = "exited"
    /\ UNCHANGED <<dfVars, getVars, inputs, requests, catalog, all_items, codes, err, file, steps>>

\* __main__ after the export returned
MainDone ==
    /\ pc = "returned" /\ entry = "main"
    /\ logs' = Append(logs, IF variant = "prices" THEN "Arquivo gerado" ELSE "df.head()")
    /\ exit_code' = 0
    /\ pc' = "exited"
    /\ UNCHANGED <<dfVars, getVars, inputs, requests, catalog, all_items, codes, err, file, steps>>

Next ==
    \/ IssueCodelist \/ CodelistReturns \/ ResolveLabels
    \/ IssueProbe \/ ProbeReturns \/ IssueFull \/ FullReturns
    \/ FormatFilename \/ WriteCsv \/ OuterExcept \/ MainFailed \/ MainDone

----------------------------------------------------------------------------
(* Specifications *)

\* the export runs
Init == RunInit /\ DfIdle /\ GetIdle
Spec == Init /\ [][Next]_vars

\* the normalizers on every input
InitDf == DfInit /\ RunIdle /\ GetIdle
NextDf == Df \/ DataFrame
SpecDf == InitDf /\ [][NextDf]_vars

\* the HTTP wrappers on every response
InitGet == GetInit /\ RunIdle /\ DfIdle
NextGet == Request_get
SpecGet == InitGet /\ [][NextGet]_vars

----------------------------------------------------------------------------
(* Properties of the export runs *)

Failed == \E n \in 1..Len(steps) : ~steps[n].ok
FailedIn(S) == \E n \in 1..Len(steps) : ~steps[n].ok /\ steps[n].step \in S
Succeeded(step) == \E n \in 1..Len(steps) : steps[n].ok /\ steps[n].step = step
StepNames == [n \in 1..Len(steps) |-> steps[n].step]
Kinds == [n \in 1..Len(requests) |-> requests[n].kind]
IsPrefix(a, b) == Len(a) <= Len(b) /\ SubSeq(b, 1, Len(a)) = a
Waiting == pc \in {"codelist_wait", "probe_wait", "full_wait"}

\* the steps of a complete run, in order
AllSteps ==
    IF variant = "prices"
    THEN <<"codelist", "resolve", "probe", "data", "format", "write">>
    ELSE <<"codelist", "resolve", "data", "format", "write">>

\* C1: a failed step is the last step of its run and aborts it; a failure
\* of the codelist fetch, the label resolution, the probe, the data fetch or
\* the file name formatting leaves no output file; the file is written only
\* after every earlier step succeeded.
C1_FailureAborts ==
    /\ \A n \in 1..Len(steps) : ~steps[n].ok => n = Len(steps)
    /\ Failed => pc \in {"except", "raised", "exited"}
    /\ FailedIn({"codelist", "resolve", "probe", "data", "format"}) => file = "none"
    /\ file # "none" =>
          /\ StepNames = AllSteps
          /\ \A n \in 1..(Len(steps) - 1) : steps[n].ok
    /\ IsPrefix(StepNames, AllSteps)

\* C1 witness: the data fetch failed after two successful steps, the run is
\* over and nothing was written
C1_Witness ==
    /\ FailedIn({"data"}) /\ Succeeded("resolve")
    /\ pc = "raised" /\ file = "none"

\* the requests of a complete run, in order
AllRequests ==
    IF variant = "prices" THEN <<"codes", "probe", "data">> ELSE <<"codes", "data">>

\* the steps that wait for a response
FetchSteps == {"codelist", "probe", "data"}

\* C3: the requests of a run are a prefix of: one codelist GET, (prices
\* only) one single-item single-year probe, one full data GET; never more
\* than three; a request is sent only when every earlier one has returned
\* successfully; the file is written only after all of them.
C3_RequestOrder ==
    /\ IsPrefix(Kinds, AllRequests)
    /\ Len(requests) <= 3
    /\ Waiting =>
          /\ ~Failed
          /\ Len(requests) = 1 + Cardinality({n \in 1..Len(steps) : steps[n].step \in FetchSteps})
    /\ ~Waiting /\ ~Failed =>
          Len(requests) = Cardinality({n \in 1..Len(steps) : steps[n].step \in FetchSteps})
    /\ (\E n \in 1..Len(requests) : requests[n].kind = "data") =>
          /\ Succeeded("codelist")
          /\ variant = "prices" => Succeeded("probe")
    /\ \A n \in 1..Len(requests) : requests[n].kind = "probe" =>
          /\ requests[n].query[1] = <<"item", codes[1]>>
          /\ requests[n].query[2] = <<"year", ToString(years[1])>>
          /\ \E m \in 1..Len(requests[n].query) : requests[n].query[m] = <<"limit", "1">>
    /\ (file # "none" \/ pc = "returned") => Kinds = AllRequests

\* C3 witness: a price export that wrote its file after three requests
C3_Witness ==
    /\ variant = "prices" /\ pc = "returned" /\ file = "complete"
    /\ Kinds = <<"codes", "probe", "data">>

\* the label of a codelist entry a wanted label is compared with
LabelOf(e) == IF HasKey(e, "label") THEN Get(e, "label") ELSE Get(e, "description")

\* C2 (as claimed): when labels are wanted, the catalog has entries and no
\* entry carries a wanted label, label resolution fails with the no-match
\* error, no data request is sent and no file is written, in both exports.
C2_NoMatchFailsFast ==
    (Succeeded("codelist") /\ pc # "resolve"
       /\ labels # {} /\ catalog # <<>>
       /\ \A n \in 1..Len(catalog) : LabelOf(catalog[n]) \notin labels)
    => /\ err.cls = "ValueError" /\ err.msg = "No items found"
       /\ Len(requests) = 1
       /\ file = "none"

\* the codes label resolution is to return: those of the entries whose label
\* (description, when no entry has a label) is wanted
MatchingCodes ==
    LET col == IF \E n \in 1..Len(catalog) : HasKey(catalog[n], "label")
               THEN "label" ELSE "description"
    IN  {Get(catalog[n], "code") : n \in
            {m \in 1..Len(catalog) : Get(catalog[m], col) \in labels}}

\* C7 (as claimed): on a catalog that has entries, with no match label
\* resolution fails with the no-match error; otherwise it returns the
\* matching entries' codes, each once.
C7_ResolveLabels ==
    (catalog # <<>> /\ labels # {} /\ \E n \in 1..Len(steps) : steps[n].step = "resolve")
    => IF MatchingCodes = {}
       THEN ~Succeeded("resolve") /\ err.cls = "ValueError" /\ err.msg = "No items found"
       ELSE Succeeded("resolve") /\ NoDup(codes) /\ Range(codes) = MatchingCodes

\* C5 (as claimed): a failure of the wrapper during get_data, for the probe
\* or the full request, reaches the caller as an error that wraps it, names
\* the domain code and keeps the original as its cause.
C5_DataFetchError ==
    (FailedIn({"probe", "data"}) /\ Len(requests) >= 2 /\ err.cls # "IndexError")
    => /\ err.msg = "Falha ao acessar dados do dominio"
       /\ err.domain
       /\ err.context # "none"

\* C6 (as claimed): a __main__ run whose export failed has printed a
\* diagnostic and ends with a non-zero exit status.
C6_FailureExitsNonZero ==
    (pc = "exited" /\ Failed) => (logs # <<>> /\ exit_code # 0)

\* C10 (as claimed): in the query of every full data request for at least
\* one item and one year the filter keys come first, once each, a list as
\* one comma-joined string; the four flags are "true" or "false"; limit is
\* -1; output_type is "objects".
C10_QueryParameters ==
    \A n \in 1..Len(requests) :
      (requests[n].kind = "data" /\ codes # <<>> /\ years # <<>>) =>
        LET q == requests[n].query
        IN  /\ Len(q) = 8
            /\ q[1] = <<"item", Join(AsInts(codes))>>
            /\ q[2] = <<"year", Join(years)>>
            /\ [m \in 1..6 |-> q[m + 2][1]] =
                  <<"show_codes", "show_flags", "show_notes", "null_values",
                    "limit", "output_type">>
            /\ \A m \in 3..6 : q[m][2] \in {"true", "false"}
            /\ q[7][2] = "-1"
            /\ q[8][2] = "objects"

----------------------------------------------------------------------------
(* Properties of the HTTP wrapper *)

\* C4 (as claimed): 500 with the sentinel body gives the not-found error
\* naming the URL's last piece; 524 the timeout error; any other status of
\* 400 or more the HTTP error with that status; anything else no error.
C4_Classification ==
    get_result # Pending =>
        IF get_response.status = 500 /\ get_response.body = Sentinel
        THEN /\ get_result.msg = "nao encontrado"
             /\ get_result.resource = <<get_url[Len(get_url)]>>
        ELSE IF get_response.status = 524
        THEN get_result.cls = "TimeoutError"
        ELSE IF get_response.status >= 400
        THEN get_result.cls = "HTTPError" /\ get_result.status = get_response.status
        ELSE get_result = NoErr

----------------------------------------------------------------------------
(* Properties of the record normalizer *)

KeysOf(rec) == [j \in 1..Len(rec) |-> rec[j][1]]
AllKeys(data) == UNION {Range(KeysOf(data[n])) : n \in 1..Len(data)}

RECURSIVE Flat(_)
\* every key of every record, in the order the records give them
Flat(data) == IF data = <<>> THEN <<>> ELSE KeysOf(Head(data)) \o Flat(Tail(data))

\* where key k is first seen
FirstSeen(k, data) ==
    CHOOSE n \in 1..Len(Flat(data)) :
        Flat(data)[n] = k /\ \A m \in 1..(n - 1) : Flat(data)[m] # k

\* the columns after the preferred ones
Extra == SubSeq(table.columns, Len(args.columns) + 1, Len(table.columns))

\* the preferred columns lead, in the given order; then the other keys, each
\* once, in first-seen order; the Records and its column list are as given
ColumnOrder ==
    /\ Len(table.columns) >= Len(args.columns)
    /\ SubSeq(table.columns, 1, Len(args.columns)) = args.columns
    /\ Range(Extra) = AllKeys(args.data) \ Range(args.columns)
    /\ NoDup(Extra)
    /\ \A a, b \in 1..Len(Extra) :
          a < b => FirstSeen(Extra[a], args.data) < FirstSeen(Extra[b], args.data)
    /\ (args.columns = <<"a">> /\ [n \in 1..Len(args.data) |-> KeysOf(args.data[n])]
                                   = << <<"b", "a">>, <<"c">> >>)
          => table.columns = <<"a", "b", "c">>
    /\ expected_order = args.columns
    /\ self_data = args.data

\* C8 (as claimed): Records.df gives the preferred columns first, then the
\* other keys in first-seen order, each column exactly once, and leaves the
\* preferred list and the records as they were.
C8_Original ==
    norm = "Records.df" => ColumnOrder /\ NoDup(table.columns)

\* C8 (amended): Records.df gives the preferred columns first, as the list
\* names them, then the other keys in first-seen order, each of those exactly
\* once, and leaves the preferred list and the records as they were; every
\* column occurs once when the preferred list names no column twice.
C8_ColumnOrder ==
    norm = "Records.df" =>
        /\ ColumnOrder
        /\ NoDup(args.columns) => NoDup(table.columns)

\* C8 witness: the claim's example, records {b, a} and {c} with preferred
\* [a], has been normalized
C8_Witness ==
    /\ norm = "Records.df"
    /\ args.columns = <<"a">>
    /\ [n \in 1..Len(args.data) |-> KeysOf(args.data[n])] = << <<"b", "a">>, <<"c">> >>
    /\ table.columns = <<"a", "b", "c">>

\* C9: in a normalized table every row has one cell per column; the columns
\* are the keys seen and the preferred columns; a cell holds the record's
\* value for the column's key, or null when the record lacks the key; and
\* every key/value pair of every record is in its row.
C9_UniformRows ==
    norm \in {"Records.df", "pd.DataFrame"} =>
        /\ Len(table.rows) = Len(args.data)
        /\ \A n \in 1..Len(table.rows) : Len(table.rows[n]) = Len(table.columns)
        /\ Range(table.columns) = AllKeys(args.data) \cup Range(args.columns)
        /\ \A n \in 1..Len(table.rows) : \A j \in 1..Len(table.columns) :
              ~HasKey(args.data[n], table.columns[j]) => table.rows[n][j] = Null
        /\ \A n \in 1..Len(args.data) : \A m \in 1..Len(args.data[n]) :
              \E j \in 1..Len(table.columns) :
                  /\ table.columns[j] = args.data[n][m][1]
                  /\ table.rows[n][j] = args.data[n][m][2]

\* C9 witness: two records with different keys were normalized; the first
\* row holds a null under a key only the second record has
C9_Witness ==
    /\ norm = "Records.df"
    /\ Len(args.data) = 2
    /\ Range(KeysOf(args.data[1])) # Range(KeysOf(args.data[2]))
    /\ \E j \in 1..Len(table.columns) :
          /\ HasKey(args.data[2], table.columns[j])
          /\ table.rows[1][j] = Null
          /\ table.rows[2][j] # Null

====
